---------------------------- MODULE Spec2Model ----------------------------
(***************************************************************************)
(* The table / session / order / bill lifecycle of the restaurant ordering *)
(* server: the relational store (src/shared/schema.ts), its data-access    *)
(* layer (src/server/storage.ts) and the HTTP handlers that drive it       *)
(* (src/server/routes.ts).                                                 *)
(*                                                                         *)
(* Representation.                                                         *)
(*   - SQL NULL / a JSON field left out: the sentinels NULL and ABSENT.    *)
(*   - A table code (otp) is the sequence of its decimal digits.           *)
(*   - A decimal(10,2) column holds the number of hundredths ("250.00" is  *)
(*     25000); toFixed(2) is the rounding to hundredths.  The binary       *)
(*     representation error of IEEE doubles is not modelled: amounts are   *)
(*     exact rationals.                                                    *)
(*   - Row ids (uuids) are counters; an order's or bill's id is its index  *)
(*     in the sequence of rows.                                            *)
(***************************************************************************)
EXTENDS Integers, Sequences, FiniteSets, TLC

\* ------------------------------------------------------------------ bounds
\* Rows the orders, bills and sales_history tables hold together.
MaxRows == 3
\* Requests in flight together, and requests each slot serves in a run.
NumProcs == 2
MaxRuns == 2
\* Orders the order ledger holds in its own specification.
MaxOrders == 1
\* Orders the billing page reads in its own specification.
MaxTableOrders == 2

\* ------------------------------------------------------- program constants
OtpBase == 1000
OtpRange == 9000

NULL == "NULL"
ABSENT == "ABSENT"

\* ------------------------------------------------------------ input domains
\* The one tenant of the lifecycle specification, and the identities a
\* verified token can carry.
Tenants == {"t1"}
\* Session ids a caller can put in a request body or query ("" included: the
\* schemas accept any string).
Sessions == {"", "s1"}
\* Session ids join can mint: `session-${Date.now()}-${random}`, never empty.
NewSessions == {"s1", "s2"}
\* The tableCount a tenant registers with.
TableCounts == {1}
\* Table numbers a request can name: the tenant's table and one it has not.
TableNumbers == {1, 2}
\* floor(Math.random() * 9000), a number of 0..8999: the least and the greatest.
RandDraws == {0, OtpRange - 1}

VARIABLES
    restaurants,    \* adminUid -> tableCount          (restaurants)
    tables,         \* set of table rows               (tables)
    nextTableId,    \* next fresh table id
    orders,         \* sequence of order rows          (orders)
    bills,          \* sequence of bill rows           (bills)
    salesHistory,   \* sequence of sales history rows  (sales_history)
    procs,          \* in-flight initializeTables / syncTables calls
    resp            \* the response of the last request

vars == <<restaurants, tables, nextTableId, orders, bills, salesHistory, procs, resp>>
dbVars == <<restaurants, tables, nextTableId, orders, bills, salesHistory>>

RowCount == Len(orders) + Len(bills) + Len(salesHistory)

\* ----------------------------------------------------------------- helpers
RECURSIVE DecimalString(_)
\* String(n) for n >= 0: the decimal digits, no padding.
DecimalString(n) == IF n < 10 THEN <<n>> ELSE Append(DecimalString(n \div 10), n % 10)

RECURSIVE PadStart(_, _)
\* s.padStart(len, "0")
PadStart(s, len) == IF Len(s) >= len THEN s ELSE PadStart(<<0>> \o s, len)

\* generateOtp: String(Math.floor(1000 + Math.random() * 9000)), k being
\* floor(Math.random() * 9000).
generateOtp(k) == DecimalString(OtpBase + k)

Otps == {generateOtp(k) : k \in RandDraws}

\* A JavaScript truthiness test of a string-or-null value.
Truthy(v) == v # NULL /\ v # ""

\* ------------------------------------------------------------------ replies
Reply(op, status) ==
    [op |-> op, status |-> status, sessionId |-> NULL,
     isExistingSession |-> FALSE, valid |-> FALSE, tableStatus |-> NULL]

\* ------------------------------------------------------- storage: tables
getTablesByAdminUid(adminUid) == {t \in tables : t.adminUid = adminUid}

getTable(id) == {t \in tables : t.id = id}

getTableByNumber(adminUid, tableNumber) ==
    {t \in tables : t.adminUid = adminUid /\ t.tableNumber = tableNumber}

\* A variant that writes null for a session id the data leaves out.
updateTableWhole(tbls, id, data) ==
    {IF t.id # id THEN t
     ELSE [t EXCEPT !.status = IF data.status = ABSENT THEN @ ELSE data.status,
                    !.activeSessionId =
                        IF data.activeSessionId = ABSENT THEN NULL
                        ELSE data.activeSessionId] : t \in tbls}

\* updateTable(id, data): the fields present in data are written.
updateTable(tbls, id, data) ==
    {IF t.id # id THEN t
     ELSE [t EXCEPT !.status = IF data.status = ABSENT THEN @ ELSE data.status,
                    !.activeSessionId =
                        IF data.activeSessionId = ABSENT THEN @
                        ELSE data.activeSessionId] : t \in tbls}

resetTable(tbls, id, newOtp) ==
    {IF t.id # id THEN t
     ELSE [t EXCEPT !.status = "vacant", !.activeSessionId = NULL,
                    !.otp = newOtp] : t \in tbls}

regenerateTableOtp(tbls, id, newOtp) ==
    {IF t.id # id THEN t ELSE [t EXCEPT !.otp = newOtp] : t \in tbls}

NewTable(id, adminUid, tableNumber, otp) ==
    [id |-> id, adminUid |-> adminUid, tableNumber |-> tableNumber,
     status |-> "vacant", activeSessionId |-> NULL, otp |-> otp]

\* initializeTables run to completion: one row per missing number of 1..count,
\* each with a code of its own (otpOf gives the draw made for each number).
initializeTables(tbls, firstId, adminUid, count, otpOf) ==
    LET existingNumbers == {t.tableNumber : t \in {x \in tbls : x.adminUid = adminUid}}
        missing == {i \in 1..count : i \notin existingNumbers}
        rank(i) == Cardinality({j \in missing : j < i})
    IN  tbls \cup {NewTable(firstId + rank(i), adminUid, i, generateOtp(otpOf[i])) : i \in missing}

MissingCount(tbls, adminUid, count) ==
    Cardinality({i \in 1..count : i \notin {t.tableNumber : t \in {x \in tbls : x.adminUid = adminUid}}})

\* -------------------------------------------------------------------- Init
NoRestaurants == [t \in {} |-> 0]
NoProcs == [p \in {} |-> 0]

Init ==
    /\ restaurants = NoRestaurants
    /\ tables = {}
    /\ nextTableId = 1
    /\ orders = <<>>
    /\ bills = <<>>
    /\ salesHistory = <<>>
    /\ procs = NoProcs
    /\ resp = Reply("none", 0)

\* ------------------------------------------------------------- auth routes
\* POST /api/auth/register
Register(adminUid, tableCount) ==
    IF adminUid \in DOMAIN restaurants
    THEN /\ resp' = Reply("other", 400)
         /\ UNCHANGED <<dbVars, procs>>
    ELSE \E otpOf \in [1..tableCount -> RandDraws] :
            /\ restaurants' = [t \in DOMAIN restaurants \cup {adminUid} |->
                                 IF t = adminUid THEN tableCount ELSE restaurants[t]]
            /\ tables' = initializeTables(tables, nextTableId, adminUid, tableCount, otpOf)
            /\ nextTableId' = nextTableId + MissingCount(tables, adminUid, tableCount)
            /\ resp' = Reply("other", 200)
            /\ UNCHANGED <<orders, bills, salesHistory, procs>>

\* POST /api/auth/login (with valid credentials)
Login(adminUid) ==
    IF adminUid \notin DOMAIN restaurants
    THEN /\ resp' = Reply("other", 401)
         /\ UNCHANGED <<dbVars, procs>>
    ELSE \E otpOf \in [1..restaurants[adminUid] -> RandDraws] :
            /\ tables' = initializeTables(tables, nextTableId, adminUid,
                                          restaurants[adminUid], otpOf)
            /\ nextTableId' = nextTableId + MissingCount(tables, adminUid, restaurants[adminUid])
            /\ resp' = Reply("other", 200)
            /\ UNCHANGED <<restaurants, orders, bills, salesHistory, procs>>

\* ------------------------------------------------------- storage: orders
getActiveOrdersByTableNumber(os, adminUid, tableNumber) ==
    {i \in DOMAIN os : /\ os[i].adminUid = adminUid
                       /\ os[i].tableNumber = tableNumber
                       /\ os[i].orderStatus = "active"}

getOrdersBySessionId(os, sessionId) ==
    {i \in DOMAIN os : os[i].sessionId = sessionId}

\* updateOrder(id, {orderStatus}) for every id of ids
updateOrders(os, ids, orderStatus) ==
    [i \in DOMAIN os |-> IF i \in ids THEN [os[i] EXCEPT !.orderStatus = orderStatus]
                         ELSE os[i]]

\* cancelTable: the table's active orders are cancelled, then the table is reset
cancelTableOrders(os, adminUid, tableNumber) ==
    updateOrders(os, getActiveOrdersByTableNumber(os, adminUid, tableNumber), "cancelled")

\* ------------------------------------------------------------ table routes
\* validate's test that the session is over: the table is vacant or bound to
\* another session. (The first definition is that test with the vacancy check
\* left out.)
sessionEndedBySessionOnly(table, sessionId) == table.activeSessionId # sessionId

sessionEnded(table, sessionId) ==
    table.status = "vacant" \/ table.activeSessionId # sessionId

\* GET /api/tables/session/validate
Validate(adminUid, tableNumber, sessionId) ==
    /\ UNCHANGED <<dbVars, procs>>
    /\ IF ~Truthy(sessionId)
       THEN resp' = Reply("validate", 400)
       ELSE IF getTableByNumber(adminUid, tableNumber) = {}
       THEN resp' = Reply("validate", 200)
       ELSE \E table \in getTableByNumber(adminUid, tableNumber) :
              IF sessionEnded(table, sessionId)
              THEN resp' = Reply("validate", 200)
              ELSE resp' = [Reply("validate", 200) EXCEPT !.valid = TRUE,
                                                         !.tableStatus = table.status]

\* PATCH /api/tables/:id
UpdateTable(reqAdminUid, id, data) ==
    /\ UNCHANGED <<restaurants, nextTableId, orders, bills, salesHistory, procs>>
    /\ IF getTable(id) = {}
       THEN resp' = Reply("other", 404) /\ UNCHANGED tables
       ELSE \E existingTable \in getTable(id) :
              IF existingTable.adminUid # reqAdminUid
              THEN resp' = Reply("other", 403) /\ UNCHANGED tables
              ELSE /\ tables' = updateTable(tables, id, data)
                   /\ resp' = Reply("other", 200)

\* POST /api/tables/:id/reset
ResetTable(reqAdminUid, id) ==
    /\ UNCHANGED <<restaurants, nextTableId, orders, bills, salesHistory, procs>>
    /\ IF getTable(id) = {}
       THEN resp' = Reply("other", 404) /\ UNCHANGED tables
       ELSE \E existingTable \in getTable(id) :
              IF existingTable.adminUid # reqAdminUid
              THEN resp' = Reply("other", 403) /\ UNCHANGED tables
              ELSE \E k \in RandDraws :
                     /\ tables' = resetTable(tables, id, generateOtp(k))
                     /\ resp' = Reply("other", 200)

\* POST /api/tables/:id/cancel
CancelTable(reqAdminUid, id) ==
    /\ UNCHANGED <<restaurants, nextTableId, bills, salesHistory, procs>>
    /\ IF getTable(id) = {}
       THEN resp' = Reply("other", 404) /\ UNCHANGED <<tables, orders>>
       ELSE \E existingTable \in getTable(id) :
              IF existingTable.adminUid # reqAdminUid
              THEN resp' = Reply("other", 403) /\ UNCHANGED <<tables, orders>>
              ELSE IF existingTable.status = "vacant"
              THEN resp' = Reply("other", 400) /\ UNCHANGED <<tables, orders>>
              ELSE \E k \in RandDraws :
                     /\ orders' = cancelTableOrders(orders, existingTable.adminUid,
                                                    existingTable.tableNumber)
                     /\ tables' = resetTable(tables, id, generateOtp(k))
                     /\ resp' = Reply("other", 200)

\* join's code check. (The first definition checks the code of a vacant table
\* only.)
otpMismatchWhenVacant(table, otp) == table.status = "vacant" /\ table.otp # otp

otpMismatch(table, otp) == table.otp # otp

\* join's test for a session to hand back. (The first definition has the
\* status test the wrong way round.)
hasExistingSessionUnlessActive(table) ==
    table.status # "active" /\ Truthy(table.activeSessionId)

hasExistingSession(table) ==
    table.status = "active" /\ Truthy(table.activeSessionId)

\* POST /api/tables/join
Join(adminUid, tableNumber, otp) ==
    /\ UNCHANGED <<restaurants, nextTableId, orders, bills, salesHistory, procs>>
    /\ IF tableNumber = 0 \/ otp = <<>>
       THEN resp' = Reply("join", 400) /\ UNCHANGED tables
       ELSE IF getTableByNumber(adminUid, tableNumber) = {}
       THEN resp' = Reply("join", 404) /\ UNCHANGED tables
       ELSE \E table \in getTableByNumber(adminUid, tableNumber) :
              IF otpMismatch(table, otp)
              THEN resp' = Reply("join", 401) /\ UNCHANGED tables
              ELSE IF hasExistingSession(table)
              THEN /\ resp' = [Reply("join", 200) EXCEPT
                                  !.sessionId = table.activeSessionId,
                                  !.isExistingSession = TRUE]
                   /\ UNCHANGED tables
              ELSE \E newSessionId \in NewSessions :
                     /\ tables' = updateTable(tables, table.id,
                                      [status |-> "active", activeSessionId |-> newSessionId])
                     /\ resp' = [Reply("join", 200) EXCEPT !.sessionId = newSessionId]

\* POST /api/tables/:id/regenerate-otp
RegenerateOtp(reqAdminUid, id) ==
    /\ UNCHANGED <<restaurants, nextTableId, orders, bills, salesHistory, procs>>
    /\ IF getTable(id) = {}
       THEN resp' = Reply("other", 404) /\ UNCHANGED tables
       ELSE \E existingTable \in getTable(id) :
              IF existingTable.adminUid # reqAdminUid
              THEN resp' = Reply("other", 403) /\ UNCHANGED tables
              ELSE \E k \in RandDraws :
                     /\ tables' = regenerateTableOtp(tables, id, generateOtp(k))
                     /\ resp' = Reply("other", 200)

\* ------------------------------------------------------------ order routes
\* POST /api/orders; data is the parsed body (insertOrderSchema)
PlaceOrder(data) ==
    /\ UNCHANGED <<restaurants, nextTableId, bills, salesHistory, procs>>
    /\ RowCount < MaxRows
    /\ orders' = Append(orders, data)
    /\ resp' = Reply("other", 200)
    /\ IF getTableByNumber(data.adminUid, data.tableNumber) = {}
       THEN UNCHANGED tables
       ELSE \E table \in getTableByNumber(data.adminUid, data.tableNumber) :
              tables' = updateTable(tables, table.id,
                            [status |-> "active", activeSessionId |-> data.sessionId])

\* ------------------------------------------------------------- bill routes
\* parseFloat of a price string, as a number of hundredths.
PriceStrings == {"100.00", "50.00", "120.00", "0.35"}
parseFloat(price) ==
    CASE price = "100.00" -> 10000
      [] price = "50.00"  -> 5000
      [] price = "120.00" -> 12000
      [] price = "0.35"   -> 35

\* Amounts in flight are exact: an integer number of 1/Scale hundredths.
Scale == 100 * 100

RECURSIVE Subtotal(_)
\* items.reduce((sum, item) => sum + parseFloat(item.price) * item.quantity, 0)
Subtotal(items) ==
    IF items = <<>> THEN 0
    ELSE Subtotal(SubSeq(items, 1, Len(items) - 1))
         + parseFloat(items[Len(items)].price) * items[Len(items)].quantity * Scale

\* x.toFixed(2), x >= 0: the nearest number of hundredths.  The inputs of the
\* model put no amount halfway between two hundredths, where the binary
\* fraction the code holds decides the digit.
toFixed2(x) == (2 * x + Scale) \div (2 * Scale)

\* (subtotal * discountPercentage) / 100. The division is made first to stay
\* within the checker's integers; it is exact, subtotal being a multiple of Scale.
DiscountAmount(subtotal, discountPercentage) == (subtotal \div 100) * discountPercentage

\* A variant that charges the service on the undiscounted subtotal.
AfterDiscountIgnored(subtotal, discountPercentage) == subtotal

AfterDiscount(subtotal, discountPercentage) ==
    subtotal - DiscountAmount(subtotal, discountPercentage)

\* (afterDiscount * serviceChargePercentage) / 100, exact likewise: afterDiscount
\* is a multiple of 100.
ServiceChargeAmount(afterDiscount, serviceChargePercentage) ==
    (afterDiscount \div 100) * serviceChargePercentage

TotalAmount(afterDiscount, serviceChargeAmount) == afterDiscount + serviceChargeAmount

getBillsByAdminUid(bs, adminUid) == {i \in DOMAIN bs : bs[i].adminUid = adminUid}

\* A variant that counts the tenant's bills of the day only.
getNextBillNumberOfDay(bs, adminUid, date) ==
    [date |-> date,
     seq |-> PadStart(DecimalString(Cardinality(
                 {i \in getBillsByAdminUid(bs, adminUid) : bs[i].billNumber.date = date}) + 1), 4)]

\* getNextBillNumber: BILL-<date>-<count + 1, padded to 4 digits>
getNextBillNumber(bs, adminUid, date) ==
    [date |-> date,
     seq |-> PadStart(DecimalString(Cardinality(getBillsByAdminUid(bs, adminUid)) + 1), 4)]

\* The row POST /api/bills hands to createBill; paymentMode is not among the
\* fields the handler reads from the body, so the column takes its default.
NewBill(bs, body, date) ==
    LET subtotal == Subtotal(body.items)
        afterDiscount == AfterDiscount(subtotal, body.discountPercentage)
        serviceChargeAmount == ServiceChargeAmount(afterDiscount, body.serviceChargePercentage)
    IN  [billNumber |-> getNextBillNumber(bs, body.adminUid, date),
         adminUid |-> body.adminUid,
         sessionId |-> body.sessionId,
         tableNumber |-> body.tableNumber,
         items |-> body.items,
         subtotal |-> toFixed2(subtotal),
         discountPercentage |-> toFixed2(body.discountPercentage * 100 * Scale),
         discountAmount |-> toFixed2(DiscountAmount(subtotal, body.discountPercentage)),
         serviceChargePercentage |-> toFixed2(body.serviceChargePercentage * 100 * Scale),
         serviceChargeAmount |-> toFixed2(serviceChargeAmount),
         totalAmount |-> toFixed2(TotalAmount(afterDiscount, serviceChargeAmount)),
         paymentMode |-> "cash",
         isFinal |-> FALSE]

\* POST /api/bills
GenerateBill(reqAdminUid, body, date) ==
    /\ UNCHANGED <<restaurants, nextTableId, orders, salesHistory, procs>>
    /\ RowCount < MaxRows
    /\ IF reqAdminUid # body.adminUid
       THEN resp' = Reply("other", 403) /\ UNCHANGED <<bills, tables>>
       ELSE LET bill == NewBill(bills, body, date) IN
            IF \E i \in DOMAIN bills : bills[i].billNumber = bill.billNumber
            THEN \* bill_number is unique: the insert throws
                 resp' = Reply("other", 500) /\ UNCHANGED <<bills, tables>>
            ELSE /\ bills' = Append(bills, bill)
                 /\ resp' = Reply("other", 200)
                 /\ IF getTableByNumber(body.adminUid, body.tableNumber) = {}
                    THEN UNCHANGED tables
                    ELSE \E table \in getTableByNumber(body.adminUid, body.tableNumber) :
                           tables' = updateTable(tables, table.id,
                                         [status |-> "billing", activeSessionId |-> ABSENT])

SalesRecord(bill, billId) ==
    [adminUid |-> bill.adminUid,
     billId |-> billId,
     tableNumber |-> bill.tableNumber,
     totalAmount |-> bill.totalAmount,
     itemsSold |-> [i \in DOMAIN bill.items |->
                      [name |-> bill.items[i].name,
                       quantity |-> bill.items[i].quantity,
                       price |-> bill.items[i].price]]]

\* (Finalize completing only the session's orders that are still active.)
completeActiveSessionOrders(os, sessionId) ==
    updateOrders(os, {i \in getOrdersBySessionId(os, sessionId) :
                        os[i].orderStatus = "active"}, "completed")

\* finalize, step 3: every order of the bill's session is completed
completeSessionOrders(os, sessionId) ==
    updateOrders(os, getOrdersBySessionId(os, sessionId), "completed")

\* POST /api/bills/:id/finalize
FinalizeBill(reqAdminUid, id) ==
    /\ UNCHANGED <<restaurants, nextTableId, procs>>
    /\ RowCount < MaxRows
    /\ IF id \notin DOMAIN bills
       THEN resp' = Reply("other", 404) /\ UNCHANGED <<bills, salesHistory, orders, tables>>
       ELSE IF reqAdminUid # bills[id].adminUid
       THEN resp' = Reply("other", 403) /\ UNCHANGED <<bills, salesHistory, orders, tables>>
       ELSE /\ bills' = [bills EXCEPT ![id].isFinal = TRUE]
            /\ salesHistory' = Append(salesHistory, SalesRecord(bills[id], id))
            /\ orders' = completeSessionOrders(orders, bills[id].sessionId)
            /\ resp' = Reply("other", 200)
            /\ IF getTableByNumber(bills[id].adminUid, bills[id].tableNumber) = {}
               THEN UNCHANGED tables
               ELSE \E table \in getTableByNumber(bills[id].adminUid, bills[id].tableNumber) :
                    \E k \in RandDraws :
                      tables' = resetTable(tables, table.id, generateOtp(k))

\* ------------------------------------------------------------ request sets
\* Bodies PATCH /api/tables/:id accepts (updateTableSchema): each field optional.
PatchBodies ==
    {[status |-> st, activeSessionId |-> sid] :
        st \in {ABSENT, "vacant", "active", "billing"}, sid \in {ABSENT, NULL, "s1"}}

ItemA == [menuItemId |-> "A", name |-> "A", price |-> "100.00", quantity |-> 2]
ItemB == [menuItemId |-> "B", name |-> "B", price |-> "50.00", quantity |-> 1]

OrderItem(item, status) ==
    [menuItemId |-> item.menuItemId, name |-> item.name, price |-> item.price,
     quantity |-> item.quantity, status |-> status]

\* Order bodies: the cart the customer page sends, every item pending, for
\* table 1 under either session id.  Bill bodies: for session "s1", for the
\* table and for a number no table has.
OrderBodies ==
    {[adminUid |-> a, sessionId |-> s, tableNumber |-> n,
      items |-> <<OrderItem(ItemA, "pending")>>, orderStatus |-> "active"] :
        a \in Tenants, s \in Sessions, n \in {1}}

BillBodies ==
    {[adminUid |-> a, sessionId |-> s, tableNumber |-> n, items |-> <<ItemA, ItemB>>,
      discountPercentage |-> 10, serviceChargePercentage |-> 5] :
        a \in Tenants, s \in {"s1"}, n \in TableNumbers}

Dates == {"20260101"}
\* Ids a request can name: those of the rows, and one that is no row's.
TableIds == {1, 2}
BillIds == 1..MaxRows

Next ==
    \/ \E a \in Tenants, c \in TableCounts : Register(a, c)
    \/ \E a \in Tenants : Login(a)
    \/ \E a \in Tenants, n \in TableNumbers, s \in Sessions \cup NewSessions :
          Validate(a, n, s)
    \/ \E a \in Tenants, id \in TableIds, data \in PatchBodies : UpdateTable(a, id, data)
    \/ \E a \in Tenants, id \in TableIds : ResetTable(a, id)
    \/ \E a \in Tenants, id \in TableIds : CancelTable(a, id)
    \/ \E a \in Tenants, n \in TableNumbers, otp \in Otps \cup {<<>>} : Join(a, n, otp)
    \/ \E a \in Tenants, id \in TableIds : RegenerateOtp(a, id)
    \/ \E data \in OrderBodies : PlaceOrder(data)
    \/ \E a \in Tenants, body \in BillBodies, date \in Dates : GenerateBill(a, body, date)
    \/ \E a \in Tenants, id \in BillIds : FinalizeBill(a, id)

Spec == Init /\ [][Next]_vars


\* ================================================ initialize / sync, stepwise
\* The handlers that run initializeTables or syncTables, one storage call (one
\* await) per step, so that requests in flight interleave.  A slot of procs
\* holds one request in flight: its place (pc), the adminUid and count it was
\* called with, the rows its getTablesByAdminUid returned (existing) and the
\* loop counter i.
Procs == 1..NumProcs
TableCountInputs == {1, 2}

Idle(runs) ==
    [pc |-> "idle", kind |-> "none", adminUid |-> NULL, count |-> 0,
     existing |-> {}, i |-> 0, runs |-> runs]

Started(p, pc, kind, adminUid, count) ==
    [procs EXCEPT ![p] = [pc |-> pc, kind |-> kind, adminUid |-> adminUid,
                          count |-> count, existing |-> {}, i |-> 0,
                          runs |-> procs[p].runs + 1]]

CanStart(p) == procs[p].pc = "idle" /\ procs[p].runs < MaxRuns

InitSync ==
    /\ restaurants = NoRestaurants
    /\ tables = {}
    /\ nextTableId = 1
    /\ orders = <<>>
    /\ bills = <<>>
    /\ salesHistory = <<>>
    /\ procs = [p \in Procs |-> Idle(0)]
    /\ resp = Reply("none", 0)

\* POST /api/auth/register, up to its call of initializeTables
StartRegister(p, adminUid, tableCount) ==
    /\ CanStart(p)
    /\ UNCHANGED <<tables, nextTableId, orders, bills, salesHistory>>
    /\ IF adminUid \in DOMAIN restaurants
       THEN /\ resp' = Reply("other", 400)
            /\ procs' = [procs EXCEPT ![p].runs = @ + 1]
            /\ UNCHANGED restaurants
       ELSE /\ restaurants' = [t \in DOMAIN restaurants \cup {adminUid} |->
                                 IF t = adminUid THEN tableCount ELSE restaurants[t]]
            /\ procs' = Started(p, "read", "initialize", adminUid, tableCount)
            /\ UNCHANGED resp

\* POST /api/auth/login, up to its call of initializeTables
StartLogin(p, adminUid) ==
    /\ CanStart(p)
    /\ UNCHANGED <<restaurants, tables, nextTableId, orders, bills, salesHistory>>
    /\ IF adminUid \notin DOMAIN restaurants
       THEN /\ resp' = Reply("other", 401)
            /\ procs' = [procs EXCEPT ![p].runs = @ + 1]
       ELSE /\ procs' = Started(p, "read", "initialize", adminUid, restaurants[adminUid])
            /\ UNCHANGED resp

\* PATCH /api/restaurants/:adminUid with a tableCount: the request arrives
StartUpdateRestaurant(p, adminUid, tableCount) ==
    /\ CanStart(p)
    /\ adminUid \in DOMAIN restaurants
    /\ procs' = Started(p, "check", "sync", adminUid, tableCount)
    /\ UNCHANGED <<dbVars, resp>>

hasNonVacantTables(adminUid) ==
    \E t \in getTablesByAdminUid(adminUid) : t.status # "vacant"

\* ... its check that no table is occupied when the count changes
CheckVacant(p) ==
    /\ procs[p].pc = "check"
    /\ UNCHANGED dbVars
    /\ IF /\ procs[p].adminUid \in DOMAIN restaurants
          /\ procs[p].count # restaurants[procs[p].adminUid]
          /\ hasNonVacantTables(procs[p].adminUid)
       THEN /\ resp' = Reply("other", 400)
            /\ procs' = [procs EXCEPT ![p] = Idle(procs[p].runs)]
       ELSE /\ procs' = [procs EXCEPT ![p].pc = "update"]
            /\ UNCHANGED resp

\* ... its updateRestaurant
UpdateCount(p) ==
    /\ procs[p].pc = "update"
    /\ UNCHANGED <<tables, nextTableId, orders, bills, salesHistory>>
    /\ IF procs[p].adminUid \notin DOMAIN restaurants
       THEN /\ resp' = Reply("other", 404)
            /\ procs' = [procs EXCEPT ![p] = Idle(procs[p].runs)]
            /\ UNCHANGED restaurants
       ELSE /\ restaurants' = [restaurants EXCEPT ![procs[p].adminUid] = procs[p].count]
            /\ procs' = [procs EXCEPT ![p].pc = "read"]
            /\ UNCHANGED resp

\* PATCH /api/superadmin/restaurants/:adminUid with a tableCount, up to its
\* call of initializeTables
StartSuperAdminUpdate(p, adminUid, tableCount) ==
    /\ CanStart(p)
    /\ UNCHANGED <<tables, nextTableId, orders, bills, salesHistory>>
    /\ IF adminUid \notin DOMAIN restaurants
       THEN /\ resp' = Reply("other", 404)
            /\ procs' = [procs EXCEPT ![p].runs = @ + 1]
            /\ UNCHANGED restaurants
       ELSE /\ restaurants' = [restaurants EXCEPT ![adminUid] = tableCount]
            /\ procs' = Started(p, "read", "initialize", adminUid, tableCount)
            /\ UNCHANGED resp

\* initializeTables / syncTables: existingTables = getTablesByAdminUid(adminUid)
ReadExisting(p) ==
    /\ procs[p].pc = "read"
    /\ procs' = [procs EXCEPT ![p].pc = "add",
                              ![p].existing = getTablesByAdminUid(procs[p].adminUid),
                              ![p].i = 1]
    /\ UNCHANGED <<dbVars, resp>>

\* One turn of the loop `for (i = 1; i <= count; i++)`: a table is created
\* when the numbers read do not have i.  The loop's end ends initializeTables.
AddMissing(p) ==
    /\ procs[p].pc = "add"
    /\ UNCHANGED <<restaurants, orders, bills, salesHistory>>
    /\ IF procs[p].i > procs[p].count
       THEN /\ UNCHANGED <<tables, nextTableId>>
            /\ IF procs[p].kind = "sync"
               THEN procs' = [procs EXCEPT ![p].pc = "delete"] /\ UNCHANGED resp
               ELSE procs' = [procs EXCEPT ![p] = Idle(procs[p].runs)]
                    /\ resp' = Reply("other", 200)
       ELSE /\ procs' = [procs EXCEPT ![p].i = @ + 1]
            /\ UNCHANGED resp
            /\ IF procs[p].i \in {t.tableNumber : t \in procs[p].existing}
               THEN UNCHANGED <<tables, nextTableId>>
               ELSE \E k \in RandDraws :
                      /\ tables' = tables \cup
                            {NewTable(nextTableId, procs[p].adminUid, procs[p].i, generateOtp(k))}
                      /\ nextTableId' = nextTableId + 1

\* One turn of syncTables' loop over the rows read: a row numbered above the
\* new count is deleted by id.  The loop's end ends syncTables.
DeleteExcess(p) ==
    /\ procs[p].pc = "delete"
    /\ UNCHANGED <<restaurants, nextTableId, orders, bills, salesHistory>>
    /\ IF procs[p].existing = {}
       THEN /\ procs' = [procs EXCEPT ![p] = Idle(procs[p].runs)]
            /\ resp' = Reply("other", 200)
            /\ UNCHANGED tables
       ELSE \E table \in procs[p].existing :
              /\ procs' = [procs EXCEPT ![p].existing = @ \ {table}]
              /\ UNCHANGED resp
              /\ IF table.tableNumber > procs[p].count
                 THEN tables' = {t \in tables : t.id # table.id}
                 ELSE UNCHANGED tables

NextSync ==
    \/ \E p \in Procs, a \in Tenants, c \in TableCountInputs : StartRegister(p, a, c)
    \/ \E p \in Procs, a \in Tenants : StartLogin(p, a)
    \/ \E p \in Procs, a \in Tenants, c \in TableCountInputs : StartUpdateRestaurant(p, a, c)
    \/ \E p \in Procs, a \in Tenants, c \in TableCountInputs : StartSuperAdminUpdate(p, a, c)
    \/ \E p \in Procs : CheckVacant(p)
    \/ \E p \in Procs : UpdateCount(p)
    \/ \E p \in Procs : ReadExisting(p)
    \/ \E p \in Procs : AddMissing(p)
    \/ \E p \in Procs : DeleteExcess(p)

SpecSync == InitSync /\ [][NextSync]_vars


\* The same handlers with one request in flight at a time.
NextSyncSeq ==
    \/ \E a \in Tenants, c \in TableCountInputs : StartRegister(1, a, c)
    \/ \E a \in Tenants : StartLogin(1, a)
    \/ \E a \in Tenants, c \in TableCountInputs : StartUpdateRestaurant(1, a, c)
    \/ \E a \in Tenants, c \in TableCountInputs : StartSuperAdminUpdate(1, a, c)
    \/ CheckVacant(1)
    \/ UpdateCount(1)
    \/ ReadExisting(1)
    \/ AddMissing(1)
    \/ DeleteExcess(1)

SpecSyncSeq == InitSync /\ [][NextSyncSeq]_vars

\* One such request in flight at a time, with customers joining tables and
\* placing orders between its steps.
OccupyingOrderBodies ==
    {[adminUid |-> a, sessionId |-> "s1", tableNumber |-> n,
      items |-> <<OrderItem(ItemA, "pending")>>, orderStatus |-> "active"] :
        a \in Tenants, n \in TableNumbers}

NextOccupied ==
    \/ NextSyncSeq
    \/ \E a \in Tenants, n \in TableNumbers, otp \in Otps : Join(a, n, otp)
    \/ \E data \in OccupyingOrderBodies : PlaceOrder(data)

SpecOccupied == InitSync /\ [][NextOccupied]_vars

\* ========================================================= billing arithmetic
\* POST /api/bills over item lists and percentages.  A percentage the body
\* leaves out is the input 0: `discountPercentage || 0`.
ItemC == [menuItemId |-> "C", name |-> "C", price |-> "0.35", quantity |-> 4]
ItemD == [menuItemId |-> "D", name |-> "D", price |-> "120.00", quantity |-> 1]
ItemLists == {<<>>, <<ItemA>>, <<ItemA, ItemB>>, <<ItemC>>, <<ItemD, ItemC>>}
DiscountPercentages == {0, 10, 15}
ServiceChargePercentages == {0, 5}

BillingBodies ==
    {[adminUid |-> a, sessionId |-> "s1", tableNumber |-> 1, items |-> items,
      discountPercentage |-> d, serviceChargePercentage |-> c] :
        a \in Tenants, items \in ItemLists,
        d \in DiscountPercentages, c \in ServiceChargePercentages}

InitBill == Init

NextBill == \E body \in BillingBodies, date \in Dates : GenerateBill(body.adminUid, body, date)

SpecBill == InitBill /\ [][NextBill]_vars

\* =============================================================== order ledger
\* POST /api/orders with what insertOrderSchema lets through, the item status
\* route, and the billable items the billing page computes from the orders.
ItemStatuses == {"pending", "accepted", "processing", "completed", "rejected"}
\* A status the route's enum refuses, besides those it takes.
ItemStatusInputs == ItemStatuses \cup {"served"}
Requesters == Tenants \cup {"t9"}
OrderIds == 1..(MaxOrders + 1)
ItemIndexes == 0..2

LedgerOrder(items, tableNumber, orderStatus) ==
    [adminUid |-> "t1", sessionId |-> "s1", tableNumber |-> tableNumber,
     items |-> items, orderStatus |-> orderStatus]

\* Bodies insertOrderSchema parses: items is any JSON list (an empty one, or
\* one whose items carry a status other than pending), orderStatus any string;
\* "active" stands for a body without orderStatus too, by the column default.
LedgerOrderBodies ==
    {LedgerOrder(<<OrderItem(ItemA, "pending")>>, 1, "active"),
     LedgerOrder(<<OrderItem(ItemA, "pending"), OrderItem(ItemB, "pending")>>, 1, "active"),
     LedgerOrder(<<>>, 1, "active"),
     LedgerOrder(<<OrderItem(ItemA, "accepted")>>, 1, "active"),
     LedgerOrder(<<OrderItem(ItemA, "pending")>>, 1, "completed"),
     LedgerOrder(<<OrderItem(ItemA, "pending")>>, 2, "active")}

\* A variant that leaves a completed item as it is.
updateOrderItemStatusUnlessCompleted(os, orderId, itemIndex, status) ==
    IF os[orderId].items[itemIndex + 1].status = "completed"
    THEN os
    ELSE [os EXCEPT ![orderId].items[itemIndex + 1].status = status]

\* updateOrderItemStatus, its index in range: items[itemIndex] = {...item, status}
updateOrderItemStatus(os, orderId, itemIndex, status) ==
    [os EXCEPT ![orderId].items[itemIndex + 1].status = status]

\* PATCH /api/orders/:orderId/items/:itemIndex
SetItemStatus(reqAdminUid, orderId, itemIndex, status) ==
    /\ UNCHANGED <<restaurants, tables, nextTableId, bills, salesHistory, procs>>
    /\ IF orderId \notin DOMAIN orders
       THEN resp' = Reply("setItemStatus", 404) /\ UNCHANGED orders
       ELSE IF orders[orderId].adminUid # reqAdminUid
       THEN resp' = Reply("setItemStatus", 403) /\ UNCHANGED orders
       ELSE IF status \notin ItemStatuses
       THEN resp' = Reply("setItemStatus", 400) /\ UNCHANGED orders
       ELSE IF itemIndex < 0 \/ itemIndex >= Len(orders[orderId].items)
       THEN resp' = Reply("setItemStatus", 404) /\ UNCHANGED orders
       ELSE /\ orders' = updateOrderItemStatus(orders, orderId, itemIndex, status)
            /\ resp' = Reply("setItemStatus", 200)

RECURSIVE getOrdersByAdminUid(_, _)
\* the tenant's orders, the newest first
getOrdersByAdminUid(os, adminUid) ==
    IF os = <<>> THEN <<>>
    ELSE IF os[Len(os)].adminUid = adminUid
         THEN <<os[Len(os)]>> \o getOrdersByAdminUid(SubSeq(os, 1, Len(os) - 1), adminUid)
         ELSE getOrdersByAdminUid(SubSeq(os, 1, Len(os) - 1), adminUid)

\* tableOrders: the orders of the selected table with orderStatus active
tableOrders(os, selectedTable) ==
    SelectSeq(os, LAMBDA o : o.tableNumber = selectedTable /\ o.orderStatus = "active")

\* A variant that bills pending items too.
isBillableOrPending(item) == item.status \in {"completed", "accepted", "processing", "pending"}

isBillable(item) == item.status \in {"completed", "accepted", "processing"}

\* One turn of billableItems' inner loop: the quantity is added to the line of
\* the same menuItemId, or a new line is pushed.
addBillableItem(items, item) ==
    IF ~isBillable(item) THEN items
    ELSE IF \E i \in DOMAIN items : items[i].menuItemId = item.menuItemId
    THEN LET i == CHOOSE j \in DOMAIN items :
                     /\ items[j].menuItemId = item.menuItemId
                     /\ \A k \in DOMAIN items :
                           items[k].menuItemId = item.menuItemId => j <= k
         IN  [items EXCEPT ![i].quantity = @ + item.quantity]
    ELSE Append(items, [menuItemId |-> item.menuItemId, name |-> item.name,
                        price |-> item.price, quantity |-> item.quantity])

RECURSIVE addBillableItems(_, _)
addBillableItems(items, orderItems) ==
    IF orderItems = <<>> THEN items
    ELSE addBillableItems(addBillableItem(items, Head(orderItems)), Tail(orderItems))

RECURSIVE billableItemsOf(_, _)
billableItemsOf(items, os) ==
    IF os = <<>> THEN items
    ELSE billableItemsOf(addBillableItems(items, Head(os).items), Tail(os))

\* billableItems of the billing page, for the tenant's orders and a table
billableItems(adminUid, selectedTable) ==
    billableItemsOf(<<>>, tableOrders(getOrdersByAdminUid(orders, adminUid), selectedTable))

\* The tenant t1 registered with one table.
InitOrders ==
    /\ restaurants = [t \in {"t1"} |-> 1]
    /\ tables = {NewTable(1, "t1", 1, generateOtp(0))}
    /\ nextTableId = 2
    /\ orders = <<>>
    /\ bills = <<>>
    /\ salesHistory = <<>>
    /\ procs = NoProcs
    /\ resp = Reply("none", 0)

\* POST /api/orders while the ledger has room for the order
PlaceLedgerOrder(data) == Len(orders) < MaxOrders /\ PlaceOrder(data)

NextOrders ==
    \/ \E data \in LedgerOrderBodies : PlaceLedgerOrder(data)
    \/ \E a \in Requesters, id \in OrderIds, i \in ItemIndexes, s \in ItemStatusInputs :
          SetItemStatus(a, id, i, s)

SpecOrders == InitOrders /\ [][NextOrders]_vars

\* --------------------------------------------------- the billing page's view
\* The orders the billing page reads: several orders of one session, placed
\* with items pending or already in a status (insertOrderSchema takes any),
\* for table 1 or for a table number that has no row, active or completed;
\* kitchen staff complete or reject items.
BillableOrderBodies ==
    {LedgerOrder(<<OrderItem(ItemA, "pending"), OrderItem(ItemB, "pending")>>, 1, "active"),
     LedgerOrder(<<OrderItem(ItemA, "accepted")>>, 1, "active"),
     LedgerOrder(<<OrderItem(ItemA, "processing")>>, 1, "completed"),
     LedgerOrder(<<OrderItem(ItemB, "processing")>>, 2, "active")}

KitchenStatuses == {"completed", "rejected"}

\* POST /api/orders while the page has room for the order
PlaceBillableOrder(data) == Len(orders) < MaxTableOrders /\ PlaceOrder(data)

NextBillable ==
    \/ \E data \in BillableOrderBodies : PlaceBillableOrder(data)
    \/ \E id \in 1..MaxTableOrders, i \in 0..1, s \in KitchenStatuses :
          SetItemStatus("t1", id, i, s)

SpecBillable == InitOrders /\ [][NextBillable]_vars

\* ================================================================ bill numbers
\* POST /api/bills by two tenants, on three days, with a payment mode in the
\* body as the billing page sends it.
BillingTenants == {"t1", "t2"}
BillingDates == {"20260101", "20260102", "20260103"}
PaymentModes == {"cash", "upi"}

NumberedBillBodies ==
    {[adminUid |-> a, sessionId |-> "s1", tableNumber |-> 1, items |-> <<ItemA>>,
      discountPercentage |-> 0, serviceChargePercentage |-> 0, paymentMode |-> p] :
        a \in BillingTenants, p \in PaymentModes}

InitBillNumber == Init

NextBillNumber ==
    \E body \in NumberedBillBodies, date \in BillingDates :
        GenerateBill(body.adminUid, body, date)

SpecBillNumber == InitBillNumber /\ [][NextBillNumber]_vars

\* =============================================================== two tenants
\* PATCH /api/orders/:id; orderStatus is the body's field, ABSENT when the
\* body leaves it out (updateOrderStatusSchema: an optional enum).
OrderStatuses == {"active", "completed", "cancelled"}

\* updateOrder(id, {orderStatus}); without the field only updatedAt is written
updateOrder(os, id, orderStatus) ==
    IF orderStatus = ABSENT THEN os ELSE updateOrders(os, {id}, orderStatus)

\* A variant that does not compare the order's tenant with the caller.
SetOrderStatusUnchecked(reqAdminUid, id, orderStatus) ==
    /\ UNCHANGED <<restaurants, tables, nextTableId, bills, salesHistory, procs>>
    /\ IF id \notin DOMAIN orders
       THEN resp' = Reply("other", 404) /\ UNCHANGED orders
       ELSE IF orderStatus \notin OrderStatuses \cup {ABSENT}
       THEN resp' = Reply("other", 400) /\ UNCHANGED orders
       ELSE /\ orders' = updateOrder(orders, id, orderStatus)
            /\ resp' = Reply("other", 200)

SetOrderStatus(reqAdminUid, id, orderStatus) ==
    /\ UNCHANGED <<restaurants, tables, nextTableId, bills, salesHistory, procs>>
    /\ IF id \notin DOMAIN orders
       THEN resp' = Reply("other", 404) /\ UNCHANGED orders
       ELSE IF orders[id].adminUid # reqAdminUid
       THEN resp' = Reply("other", 403) /\ UNCHANGED orders
       ELSE IF orderStatus \notin OrderStatuses \cup {ABSENT}
       THEN resp' = Reply("other", 400) /\ UNCHANGED orders
       ELSE /\ orders' = updateOrder(orders, id, orderStatus)
            /\ resp' = Reply("other", 200)

\* Two tenants, each registered with one table; the admin routes are called
\* with the token of either, on the table of t1 and on the orders and bills of
\* either.  Customers of t1 place orders; both tenants bill, with a session id
\* of the caller's choosing.
AuthTenants == {"t1", "t2"}
AuthPatchBodies == {[status |-> "billing", activeSessionId |-> ABSENT]}
AuthOrderBodies ==
    {[adminUid |-> "t1", sessionId |-> "s1", tableNumber |-> 1,
      items |-> <<OrderItem(ItemA, "pending")>>, orderStatus |-> "active"]}
AuthBillBodies ==
    {[adminUid |-> a, sessionId |-> "s1", tableNumber |-> 1, items |-> <<ItemA>>,
      discountPercentage |-> 0, serviceChargePercentage |-> 0] : a \in AuthTenants}
AuthOrderStatusInputs == {"cancelled", "served"}

InitAuth ==
    /\ restaurants = [t \in AuthTenants |-> 1]
    /\ tables = {NewTable(1, "t1", 1, generateOtp(0)), NewTable(2, "t2", 1, generateOtp(0))}
    /\ nextTableId = 3
    /\ orders = <<>>
    /\ bills = <<>>
    /\ salesHistory = <<>>
    /\ procs = NoProcs
    /\ resp = Reply("none", 0)

NextAuth ==
    \/ \E data \in AuthOrderBodies : PlaceOrder(data)
    \/ \E a \in AuthTenants, data \in AuthPatchBodies : UpdateTable(a, 1, data)
    \/ \E a \in AuthTenants : ResetTable(a, 1)
    \/ \E a \in AuthTenants : CancelTable(a, 1)
    \/ \E a \in AuthTenants : RegenerateOtp(a, 1)
    \/ \E a \in AuthTenants, id \in BillIds : SetItemStatus(a, id, 0, "accepted")
    \/ \E a \in AuthTenants, id \in BillIds, s \in AuthOrderStatusInputs : SetOrderStatus(a, id, s)
    \/ \E a \in AuthTenants, body \in AuthBillBodies, date \in Dates : GenerateBill(a, body, date)
    \/ \E a \in AuthTenants, id \in BillIds : FinalizeBill(a, id)

SpecAuth == InitAuth /\ [][NextAuth]_vars

\* ===================================================== set item status, stepwise
\* PATCH /api/orders/:orderId/items/:itemIndex one storage call (one await) per
\* step: the route's getOrder and checks, then updateOrderItemStatus's own
\* getOrder, then its updateOrder with the whole items array.  A slot of procs
\* holds one request: its place (pc), its parameters, the items its getOrder
\* returned, and, once done, its answer.
RaceItemIndexes == {0, 1, 2}
RaceStatuses == {"accepted"}

ItemCall(pc, orderId, itemIndex, status, items, result, runs) ==
    [pc |-> pc, orderId |-> orderId, itemIndex |-> itemIndex, status |-> status,
     items |-> items, result |-> result, runs |-> runs]

InitItemRace ==
    /\ restaurants = [t \in {"t1"} |-> 1]
    /\ tables = {[NewTable(1, "t1", 1, generateOtp(0)) EXCEPT
                     !.status = "active", !.activeSessionId = "s1"]}
    /\ nextTableId = 2
    /\ orders = <<LedgerOrder(<<OrderItem(ItemA, "pending"), OrderItem(ItemB, "pending")>>,
                              1, "active")>>
    /\ bills = <<>>
    /\ salesHistory = <<>>
    /\ procs = [p \in Procs |-> ItemCall("idle", 0, 0, NULL, <<>>, 0, 0)]
    /\ resp = Reply("none", 0)

ItemCallDone(p, result) ==
    /\ procs' = [procs EXCEPT ![p].pc = "done", ![p].result = result]
    /\ resp' = Reply("setItemStatus", result)

\* The route up to its call of updateOrderItemStatus.
StartSetItemStatus(p, reqAdminUid, orderId, itemIndex, status) ==
    /\ procs[p].pc \in {"idle", "done"}
    /\ procs[p].runs < MaxRuns
    /\ UNCHANGED dbVars
    /\ LET call == ItemCall("read", orderId, itemIndex, status, <<>>, 0, procs[p].runs + 1) IN
       IF orderId \notin DOMAIN orders
       THEN /\ procs' = [procs EXCEPT ![p] = [call EXCEPT !.pc = "done", !.result = 404]]
            /\ resp' = Reply("setItemStatus", 404)
       ELSE IF orders[orderId].adminUid # reqAdminUid
       THEN /\ procs' = [procs EXCEPT ![p] = [call EXCEPT !.pc = "done", !.result = 403]]
            /\ resp' = Reply("setItemStatus", 403)
       ELSE IF status \notin ItemStatuses
       THEN /\ procs' = [procs EXCEPT ![p] = [call EXCEPT !.pc = "done", !.result = 400]]
            /\ resp' = Reply("setItemStatus", 400)
       ELSE /\ procs' = [procs EXCEPT ![p] = call]
            /\ UNCHANGED resp

\* updateOrderItemStatus: const order = await this.getOrder(orderId), and the
\* index check on the copy of its items.
ReadItems(p) ==
    /\ procs[p].pc = "read"
    /\ UNCHANGED dbVars
    /\ IF procs[p].itemIndex >= Len(orders[procs[p].orderId].items)
       THEN ItemCallDone(p, 404)
       ELSE /\ procs' = [procs EXCEPT ![p].pc = "write",
                                      ![p].items = orders[procs[p].orderId].items]
            /\ UNCHANGED resp

\* A variant that sets the one item's status in the stored array.
writeItemStatusInPlace(os, orderId, items, itemIndex, status) ==
    [os EXCEPT ![orderId].items[itemIndex + 1].status = status]

\* items[itemIndex] = {...items[itemIndex], status}; updateOrder(orderId, {items})
writeItemStatus(os, orderId, items, itemIndex, status) ==
    [os EXCEPT ![orderId].items = [items EXCEPT ![itemIndex + 1].status = status]]

\* updateOrderItemStatus: return this.updateOrder(orderId, { items })
WriteItems(p) ==
    /\ procs[p].pc = "write"
    /\ orders' = writeItemStatus(orders, procs[p].orderId, procs[p].items,
                                 procs[p].itemIndex, procs[p].status)
    /\ ItemCallDone(p, 200)
    /\ UNCHANGED <<restaurants, tables, nextTableId, bills, salesHistory>>

NextItemRace ==
    \/ \E p \in Procs, i \in RaceItemIndexes, s \in RaceStatuses :
          StartSetItemStatus(p, "t1", 1, i, s)
    \/ \E p \in Procs : ReadItems(p)
    \/ \E p \in Procs : WriteItems(p)

SpecItemRace == InitItemRace /\ [][NextItemRace]_vars

\* ============================================================ generate, stepwise
\* POST /api/bills one storage call per step: getNextBillNumber's read of the
\* tenant's bills, createBill, then the table update.  A slot of procs holds
\* one request: its place (pc), its body and date, the bill number it minted,
\* and, once done, its answer.
RaceBillBodies == {body \in AuthBillBodies : body.adminUid = "t1"}

\* A slot's body and bill number before it has any.
NoBody == [adminUid |-> NULL]
NoBillNumber == [date |-> NULL, seq |-> <<>>]

BillCall(pc, body, date, billNumber, result, runs) ==
    [pc |-> pc, body |-> body, date |-> date, billNumber |-> billNumber,
     result |-> result, runs |-> runs]

InitBillRace ==
    /\ restaurants = [t \in {"t1"} |-> 1]
    /\ tables = {[NewTable(1, "t1", 1, generateOtp(0)) EXCEPT
                     !.status = "active", !.activeSessionId = "s1"]}
    /\ nextTableId = 2
    /\ orders = <<>>
    /\ bills = <<>>
    /\ salesHistory = <<>>
    /\ procs = [p \in Procs |-> BillCall("idle", NoBody, NULL, NoBillNumber, 0, 0)]
    /\ resp = Reply("none", 0)

BillCallDone(p, result) ==
    /\ procs' = [procs EXCEPT ![p].pc = "done", ![p].result = result]
    /\ resp' = Reply("other", result)

\* The handler up to its call of getNextBillNumber.
StartGenerate(p, reqAdminUid, body, date) ==
    /\ procs[p].pc \in {"idle", "done"}
    /\ procs[p].runs < MaxRuns
    /\ UNCHANGED dbVars
    /\ LET call == BillCall("count", body, date, NoBillNumber, 0, procs[p].runs + 1) IN
       IF reqAdminUid # body.adminUid
       THEN /\ procs' = [procs EXCEPT ![p] = [call EXCEPT !.pc = "done", !.result = 403]]
            /\ resp' = Reply("other", 403)
       ELSE /\ procs' = [procs EXCEPT ![p] = call]
            /\ UNCHANGED resp

\* getNextBillNumber: the tenant's bills are read and the number made of their
\* count.
CountBills(p) ==
    /\ procs[p].pc = "count"
    /\ procs' = [procs EXCEPT
                    ![p].pc = "insert",
                    ![p].billNumber = getNextBillNumber(bills, procs[p].body.adminUid,
                                                        procs[p].date)]
    /\ UNCHANGED <<dbVars, resp>>

\* A variant that numbers the bill by the bills stored at the insert.
draftBillRenumbered(bs, body, date, billNumber) == NewBill(bs, body, date)

\* The row handed to createBill, with the number minted before.
draftBill(bs, body, date, billNumber) ==
    [NewBill(bs, body, date) EXCEPT !.billNumber = billNumber]

\* createBill; bill_number is unique, so the insert of a number in use throws
\* and the handler answers 500.
InsertBill(p) ==
    /\ procs[p].pc = "insert"
    /\ UNCHANGED <<restaurants, tables, nextTableId, orders, salesHistory>>
    /\ LET bill == draftBill(bills, procs[p].body, procs[p].date, procs[p].billNumber) IN
       IF \E i \in DOMAIN bills : bills[i].billNumber = bill.billNumber
       THEN BillCallDone(p, 500) /\ UNCHANGED bills
       ELSE /\ bills' = Append(bills, bill)
            /\ procs' = [procs EXCEPT ![p].pc = "table"]
            /\ UNCHANGED resp

\* getTableByNumber, updateTable(table.id, {status: "billing"}), res.json(bill)
UpdateBilledTable(p) ==
    /\ procs[p].pc = "table"
    /\ UNCHANGED <<restaurants, nextTableId, orders, bills, salesHistory>>
    /\ BillCallDone(p, 200)
    /\ IF getTableByNumber(procs[p].body.adminUid, procs[p].body.tableNumber) = {}
       THEN UNCHANGED tables
       ELSE \E table \in getTableByNumber(procs[p].body.adminUid, procs[p].body.tableNumber) :
              tables' = updateTable(tables, table.id,
                            [status |-> "billing", activeSessionId |-> ABSENT])

NextBillRace ==
    \/ \E p \in Procs, a \in AuthTenants, body \in RaceBillBodies, date \in Dates :
          StartGenerate(p, a, body, date)
    \/ \E p \in Procs : CountBills(p)
    \/ \E p \in Procs : InsertBill(p)
    \/ \E p \in Procs : UpdateBilledTable(p)

SpecBillRace == InitBillRace /\ [][NextBillRace]_vars

\* ============================================================ finalize, stepwise
\* POST /api/bills/:id/finalize one write per step: the bill is marked final,
\* the sales history row is written, the session's orders are completed (the
\* loop of updateOrder calls taken as one step), the table is reset.  Nothing
\* wraps the writes in a transaction, and a storage call that throws sends the
\* handler to its catch, which answers 500 and undoes nothing.  A slot of
\* procs serves one request: its place (pc), the bill id, the bill row getBill
\* returned, and, once it has ended, its answer.
FinalizeCall(pc, id, bill, result) ==
    [pc |-> pc, id |-> id, bill |-> bill, result |-> result]

FinalizeBillBody ==
    [adminUid |-> "t1", sessionId |-> "s1", tableNumber |-> 1, items |-> <<ItemA>>,
     discountPercentage |-> 0, serviceChargePercentage |-> 0]

InitFinalize ==
    /\ restaurants = [t \in {"t1"} |-> 1]
    /\ tables = {[NewTable(1, "t1", 1, generateOtp(0)) EXCEPT
                     !.status = "billing", !.activeSessionId = "s1"]}
    /\ nextTableId = 2
    /\ orders = <<LedgerOrder(<<OrderItem(ItemA, "accepted")>>, 1, "active")>>
    /\ bills = <<NewBill(<<>>, FinalizeBillBody, "20260101")>>
    /\ salesHistory = <<>>
    /\ procs = [p \in Procs |-> FinalizeCall("idle", 0, NoBody, 0)]
    /\ resp = Reply("none", 0)

FinalizeCallEnded(p, pc, result) ==
    /\ procs' = [procs EXCEPT ![p].pc = pc, ![p].result = result]
    /\ resp' = Reply("other", result)

InFinalize(p) == procs[p].pc \in {"final", "sales", "orders", "table"}

\* getBill and the two checks.
StartFinalize(p, reqAdminUid, id) ==
    /\ procs[p].pc = "idle"
    /\ UNCHANGED dbVars
    /\ IF id \notin DOMAIN bills
       THEN /\ procs' = [procs EXCEPT ![p] =
                            FinalizeCall("done", id, NoBody, 404)]
            /\ resp' = Reply("other", 404)
       ELSE IF reqAdminUid # bills[id].adminUid
       THEN /\ procs' = [procs EXCEPT ![p] =
                            FinalizeCall("done", id, bills[id], 403)]
            /\ resp' = Reply("other", 403)
       ELSE /\ procs' = [procs EXCEPT ![p] =
                            FinalizeCall("final", id, bills[id], 0)]
            /\ UNCHANGED resp

\* updateBill(bill.id, {isFinal: true})
MarkFinal(p) ==
    /\ procs[p].pc = "final"
    /\ bills' = [bills EXCEPT ![procs[p].id].isFinal = TRUE]
    /\ procs' = [procs EXCEPT ![p].pc = "sales"]
    /\ UNCHANGED <<restaurants, tables, nextTableId, orders, salesHistory, resp>>

\* createSalesHistory, from the bill row read at the start
WriteSalesHistory(p) ==
    /\ procs[p].pc = "sales"
    /\ salesHistory' = Append(salesHistory, SalesRecord(procs[p].bill, procs[p].id))
    /\ procs' = [procs EXCEPT ![p].pc = "orders"]
    /\ UNCHANGED <<restaurants, tables, nextTableId, orders, bills, resp>>

\* getOrdersBySessionId and updateOrder(order.id, {orderStatus: "completed"})
CompleteOrders(p) ==
    /\ procs[p].pc = "orders"
    /\ orders' = completeSessionOrders(orders, procs[p].bill.sessionId)
    /\ procs' = [procs EXCEPT ![p].pc = "table"]
    /\ UNCHANGED <<restaurants, tables, nextTableId, bills, salesHistory, resp>>

\* getTableByNumber, resetTable, res.json
ResetBilledTable(p) ==
    /\ procs[p].pc = "table"
    /\ UNCHANGED <<restaurants, nextTableId, orders, bills, salesHistory>>
    /\ FinalizeCallEnded(p, "done", 200)
    /\ IF getTableByNumber(procs[p].bill.adminUid, procs[p].bill.tableNumber) = {}
       THEN UNCHANGED tables
       ELSE \E table \in getTableByNumber(procs[p].bill.adminUid, procs[p].bill.tableNumber) :
            \E k \in RandDraws :
              tables' = resetTable(tables, table.id, generateOtp(k))

\* A variant whose catch takes back the mark on the bill.
InterruptWithRollback(p) ==
    /\ InFinalize(p)
    /\ FinalizeCallEnded(p, "interrupted", 500)
    /\ bills' = [bills EXCEPT ![procs[p].id].isFinal = FALSE]
    /\ UNCHANGED <<restaurants, tables, nextTableId, orders, salesHistory>>

\* The storage call the request is waiting for throws: catch, 500.
Interrupt(p) ==
    /\ InFinalize(p)
    /\ FinalizeCallEnded(p, "interrupted", 500)
    /\ UNCHANGED dbVars

NextFinalize ==
    \/ \E p \in Procs, a \in AuthTenants, id \in {1, 2} : StartFinalize(p, a, id)
    \/ \E p \in Procs : MarkFinal(p)
    \/ \E p \in Procs : WriteSalesHistory(p)
    \/ \E p \in Procs : CompleteOrders(p)
    \/ \E p \in Procs : ResetBilledTable(p)
    \/ \E p \in Procs : Interrupt(p)

SpecFinalize == InitFinalize /\ [][NextFinalize]_vars

\* ============================================================== stale sessions
\* One visit after another at table 1 of tenant t1: customers join, place
\* orders and ask validate; the billing page bills the table's session and
\* finalizes.  A customer keeps the session id of an earlier visit.
\* The session ids in use: a join mints an id no row holds (Date.now() and a
\* random string make every id new).
UsedSessions ==
    {t.activeSessionId : t \in tables} \cup {orders[i].sessionId : i \in DOMAIN orders}
        \cup {bills[i].sessionId : i \in DOMAIN bills}

JoinFresh(adminUid, tableNumber, otp) ==
    /\ Join(adminUid, tableNumber, otp)
    /\ tables' # tables => resp'.sessionId \notin UsedSessions

StaleOrderBodies ==
    {[adminUid |-> "t1", sessionId |-> s, tableNumber |-> 1,
      items |-> <<OrderItem(ItemA, "pending")>>, orderStatus |-> "active"] :
        s \in NewSessions}

\* The body the billing page sends for a table that has a session.
PageBillBodies ==
    {[adminUid |-> t.adminUid, sessionId |-> t.activeSessionId,
      tableNumber |-> t.tableNumber, items |-> <<ItemA>>,
      discountPercentage |-> 0, serviceChargePercentage |-> 0] :
        t \in {x \in tables : Truthy(x.activeSessionId)}}

NextStale ==
    \/ \E otp \in Otps : JoinFresh("t1", 1, otp)
    \/ \E data \in StaleOrderBodies : PlaceOrder(data)
    \/ \E s \in NewSessions : Validate("t1", 1, s)
    \/ \E body \in PageBillBodies, date \in Dates : GenerateBill("t1", body, date)
    \/ \E id \in BillIds : FinalizeBill("t1", id)

SpecStale == InitOrders /\ [][NextStale]_vars

\* ================================================================= claims
\* The table of (adminUid, tableNumber) a request names, when there is one.
TableOf(adminUid, tableNumber) == CHOOSE t \in getTableByNumber(adminUid, tableNumber) : TRUE

\* C1: in every reachable state every table has status = vacant if and only
\* if its activeSessionId is null.
C1_VacantIffNoSession ==
    \A t \in tables : (t.status = "vacant") <=> (t.activeSessionId = NULL)

\* C2: whatever finalize calls were made, at most one SalesHistory record
\* exists for each bill.
C2_OneSalesRecordPerBill ==
    \A b \in DOMAIN bills :
        Cardinality({i \in DOMAIN salesHistory : salesHistory[i].billId = b}) <= 1

\* C3: a finalize of an existing bill by its owner leaves the bill final, a
\* SalesHistory record with the bill's id, table number, total and items,
\* every order of the bill's session completed, and the bill's table vacant
\* with no session.
C3_FinalizePostcondition ==
    [][\A a \in Tenants, id \in DOMAIN bills :
          (FinalizeBill(a, id) /\ bills[id].adminUid = a) =>
              /\ bills'[id].isFinal
              /\ \E i \in DOMAIN salesHistory' :
                    /\ salesHistory'[i].billId = id
                    /\ salesHistory'[i].tableNumber = bills[id].tableNumber
                    /\ salesHistory'[i].totalAmount = bills[id].totalAmount
                    /\ Len(salesHistory'[i].itemsSold) = Len(bills[id].items)
                    /\ \A j \in DOMAIN bills[id].items :
                          /\ salesHistory'[i].itemsSold[j].name = bills[id].items[j].name
                          /\ salesHistory'[i].itemsSold[j].quantity = bills[id].items[j].quantity
                          /\ salesHistory'[i].itemsSold[j].price = bills[id].items[j].price
              /\ \A o \in DOMAIN orders' :
                    orders'[o].sessionId = bills[id].sessionId =>
                        orders'[o].orderStatus = "completed"
              /\ \A t \in tables' :
                    (t.adminUid = bills[id].adminUid /\ t.tableNumber = bills[id].tableNumber)
                        => (t.status = "vacant" /\ t.activeSessionId = NULL)]_vars

\* A finalized bill with its sales record, a completed order of its session
\* (one cancelled before) and its table vacant.
C3_Witness ==
    \E id \in DOMAIN bills :
        /\ bills[id].isFinal
        /\ \E i \in DOMAIN salesHistory : salesHistory[i].billId = id
        /\ \E o \in DOMAIN orders :
              orders[o].sessionId = bills[id].sessionId /\ orders[o].orderStatus = "completed"
        /\ \E t \in tables :
              /\ t.tableNumber = bills[id].tableNumber
              /\ t.status = "vacant" /\ t.activeSessionId = NULL

\* C4 as stated: while a table is active with session S (any non-null S), a
\* join with the table's code returns S with isExistingSession = true and
\* changes nothing.
C4_RejoinReturnsSession ==
    [][\A a \in Tenants, n \in TableNumbers, otp \in Otps :
          (/\ Join(a, n, otp)
           /\ getTableByNumber(a, n) # {}
           /\ TableOf(a, n).status = "active"
           /\ TableOf(a, n).activeSessionId # NULL
           /\ TableOf(a, n).otp = otp) =>
              /\ resp'.status = 200
              /\ resp'.sessionId = TableOf(a, n).activeSessionId
              /\ resp'.isExistingSession
              /\ dbVars' = dbVars]_vars

\* C4 amended: the same for a non-empty session id S.
C4_RejoinReturnsNonEmptySession ==
    [][\A a \in Tenants, n \in TableNumbers, otp \in Otps :
          (/\ Join(a, n, otp)
           /\ getTableByNumber(a, n) # {}
           /\ TableOf(a, n).status = "active"
           /\ TableOf(a, n).activeSessionId \notin {NULL, ""}
           /\ TableOf(a, n).otp = otp) =>
              /\ resp'.status = 200
              /\ resp'.sessionId = TableOf(a, n).activeSessionId
              /\ resp'.isExistingSession
              /\ dbVars' = dbVars]_vars

\* A join has just returned the session the active table is bound to.
C4_Witness ==
    /\ resp.op = "join" /\ resp.status = 200 /\ resp.isExistingSession
    /\ \E t \in tables : t.status = "active" /\ t.activeSessionId = resp.sessionId

\* C5: a join with a code other than the table's stored code answers 401
\* whatever the table's status, and changes nothing.
C5_WrongCodeRejected ==
    [][\A a \in Tenants, n \in TableNumbers, otp \in Otps :
          (/\ Join(a, n, otp)
           /\ getTableByNumber(a, n) # {}
           /\ TableOf(a, n).otp # otp) =>
              /\ resp'.status = 401
              /\ resp'.sessionId = NULL
              /\ dbVars' = dbVars]_vars

\* A join was just refused while the table is occupied (active or billing)
\* and bound to a session.
C5_Witness ==
    /\ resp.op = "join" /\ resp.status = 401
    /\ \E t \in tables : t.status = "billing" /\ t.activeSessionId = "s1"
    /\ \E t \in tables : t.status # "vacant"

\* C6: validate with its three parameters given answers valid = true, with
\* the table's status, exactly when the table exists, is not vacant and is
\* bound to the given session id, and valid = false otherwise; it changes no
\* stored state.
C6_ValidateExact ==
    [][\A a \in Tenants, n \in TableNumbers, s \in (Sessions \cup NewSessions) \ {""} :
          Validate(a, n, s) =>
              /\ resp'.status = 200
              /\ resp'.valid <=>
                    /\ getTableByNumber(a, n) # {}
                    /\ TableOf(a, n).status # "vacant"
                    /\ TableOf(a, n).activeSessionId = s
              /\ resp'.valid => resp'.tableStatus = TableOf(a, n).status
              /\ dbVars' = dbVars]_vars

\* validate has just answered valid = true for a table in billing.
C6_Witness ==
    /\ resp.op = "validate" /\ resp.valid /\ resp.tableStatus = "billing"
    /\ \E t \in tables : t.status = "billing" /\ t.activeSessionId \in NewSessions

\* C8: cancel on a non-vacant table cancels exactly the table's active
\* orders and leaves the table vacant, with no session and with a code other
\* than the one it had.
C8_CancelNewCode ==
    [][\A a \in Tenants, id \in TableIds :
          (/\ CancelTable(a, id)
           /\ getTable(id) # {}
           /\ \A t \in getTable(id) : t.adminUid = a /\ t.status # "vacant") =>
              \A t \in getTable(id) :
                 /\ \A o \in DOMAIN orders :
                       orders'[o] =
                          IF /\ orders[o].adminUid = t.adminUid
                             /\ orders[o].tableNumber = t.tableNumber
                             /\ orders[o].orderStatus = "active"
                          THEN [orders[o] EXCEPT !.orderStatus = "cancelled"]
                          ELSE orders[o]
                 /\ \E u \in tables' :
                       /\ u.id = id
                       /\ u.status = "vacant" /\ u.activeSessionId = NULL
                       /\ u.otp # t.otp]_vars

\* C9: a table's code changes only in a step that resets the table or while
\* the table is vacant.
C9_CodeStableWhileOccupied ==
    [][\A t \in tables, u \in tables' :
          (t.id = u.id /\ t.otp # u.otp) =>
              \/ t.status = "vacant"
              \/ u.status = "vacant" /\ u.activeSessionId = NULL]_vars

\* C7: once no request that initializes or synchronizes tables is in flight,
\* every table number of 1..tableCount has exactly one row for its tenant.
Quiescent == \A p \in DOMAIN procs : procs[p].pc = "idle"

C7_OneRowPerTableNumber ==
    Quiescent =>
        \A a \in DOMAIN restaurants, n \in TableNumbers :
            n <= restaurants[a] => Cardinality(getTableByNumber(a, n)) = 1

\* C10: every bill generate stores holds, each to 2 decimals, subtotal = the
\* sum of unit price * quantity, discountAmount = subtotal * discountPct / 100,
\* serviceChargeAmount = (subtotal - discountAmount) * serviceChargePct / 100
\* and totalAmount = (subtotal - discountAmount) + serviceChargeAmount; items
\* (100.00 x 2, 50.00 x 1) at 10% and 5% store 250.00, 25.00, 11.25, 236.25.
\* Amounts are counted in hundredths; the exact ones in 1/10000 of a hundredth.
RECURSIVE SumOfLines(_)
SumOfLines(items) ==
    IF items = <<>> THEN 0
    ELSE parseFloat(Head(items).price) * Head(items).quantity + SumOfLines(Tail(items))

Abs(x) == IF x < 0 THEN -x ELSE x
\* stored (hundredths) is exact (1/10000 hundredths) to 2 decimals
IsTwoDecimalsOf(stored, exact) == 2 * Abs(stored * 10000 - exact) <= 10000

BillArithmeticHolds(bill) ==
    LET s == SumOfLines(bill.items)
        d == bill.discountPercentage \div 100
        c == bill.serviceChargePercentage \div 100
        exactSubtotal == s * 10000
        exactDiscount == s * 100 * d
        exactAfterDiscount == exactSubtotal - exactDiscount
        exactServiceCharge == (s * 100 - s * d) * c
    IN  /\ bill.subtotal = s
        /\ IsTwoDecimalsOf(bill.discountAmount, exactDiscount)
        /\ IsTwoDecimalsOf(bill.serviceChargeAmount, exactServiceCharge)
        /\ IsTwoDecimalsOf(bill.totalAmount, exactAfterDiscount + exactServiceCharge)

IsExampleBill(bill) ==
    /\ bill.items = <<ItemA, ItemB>>
    /\ bill.discountPercentage = 1000
    /\ bill.serviceChargePercentage = 500

C10_BillingArithmetic ==
    \A i \in DOMAIN bills :
        /\ BillArithmeticHolds(bills[i])
        /\ IsExampleBill(bills[i]) =>
              /\ bills[i].subtotal = 25000
              /\ bills[i].discountAmount = 2500
              /\ bills[i].serviceChargeAmount = 1125
              /\ bills[i].totalAmount = 23625

\* The example's bill is stored, and so is one whose amounts are rounded.
C10_Witness ==
    /\ \E i \in DOMAIN bills : IsExampleBill(bills[i]) /\ bills[i].totalAmount = 23625
    /\ \E i \in DOMAIN bills :
          /\ bills[i].items = <<ItemC>>
          /\ bills[i].discountPercentage = 1500
          /\ bills[i].serviceChargePercentage = 500
          /\ bills[i].serviceChargeAmount = 6
          /\ bills[i].totalAmount = 125

\* C11: no step changes a tenant's table count while one of the tenant's
\* tables is non-vacant, and no step deletes a non-vacant table.
C11_OccupiedTablesKept ==
    [][/\ \A a \in DOMAIN restaurants :
             restaurants'[a] # restaurants[a] => ~hasNonVacantTables(a)
       /\ \A t \in tables :
             t.status # "vacant" => \E u \in tables' : u.id = t.id]_vars

\* C12: once a change of the table count has run to its end, the tenant's
\* table numbers are exactly 1..tableCount.
C12_NumbersAreOneToCount ==
    Quiescent =>
        \A a \in DOMAIN restaurants :
            {t.tableNumber : t \in getTablesByAdminUid(a)} = 1..restaurants[a]

\* C13: a place that succeeds adds exactly one order, with orderStatus active
\* and every item pending, and leaves the table of the order active and bound
\* to the session id of the request.
C13_PlaceCreatesActivePendingOrder ==
    [][\A data \in LedgerOrderBodies :
          (PlaceOrder(data) /\ resp'.status = 200) =>
              /\ Len(orders') = Len(orders) + 1
              /\ orders'[Len(orders')].orderStatus = "active"
              /\ \A i \in DOMAIN orders'[Len(orders')].items :
                    orders'[Len(orders')].items[i].status = "pending"
              /\ \A t \in getTableByNumber(data.adminUid, data.tableNumber) :
                    \E u \in tables' :
                       /\ u.id = t.id
                       /\ u.status = "active"
                       /\ u.activeSessionId = data.sessionId]_vars

\* C14: a place with an empty item list is answered as a validation error
\* and changes neither the orders nor the tables.
C14_EmptyPlaceRejected ==
    [][\A data \in LedgerOrderBodies :
          (PlaceOrder(data) /\ data.items = <<>>) =>
              /\ resp'.status = 400
              /\ orders' = orders
              /\ tables' = tables]_vars

\* C15: setItemStatus by the order's owner with an index in range and one of
\* the five statuses succeeds whatever the item's status was; afterwards the
\* item has that status, and the other items, the order's orderStatus and
\* every other order are as before.
C15_SetItemStatusRoundTrip ==
    [][\A a \in Requesters, id \in DOMAIN orders, i \in ItemIndexes, s \in ItemStatuses :
          (/\ orders[id].adminUid = a
           /\ i < Len(orders[id].items)
           /\ SetItemStatus(a, id, i, s)) =>
              /\ resp'.status = 200
              /\ Len(orders') = Len(orders)
              /\ orders'[id].items[i + 1].status = s
              /\ orders'[id].items[i + 1].menuItemId = orders[id].items[i + 1].menuItemId
              /\ orders'[id].items[i + 1].quantity = orders[id].items[i + 1].quantity
              /\ orders'[id].items[i + 1].price = orders[id].items[i + 1].price
              /\ Len(orders'[id].items) = Len(orders[id].items)
              /\ \A j \in DOMAIN orders[id].items :
                    j # i + 1 => orders'[id].items[j] = orders[id].items[j]
              /\ orders'[id].orderStatus = orders[id].orderStatus
              /\ \A o \in DOMAIN orders : o # id => orders'[o] = orders[o]
              /\ tables' = tables]_vars

\* A status was just set, and an order holds one item rejected beside one
\* completed.
C15_Witness ==
    /\ resp.op = "setItemStatus" /\ resp.status = 200
    /\ \E id \in DOMAIN orders :
          /\ Len(orders[id].items) = 2
          /\ orders[id].items[1].status = "rejected"
          /\ orders[id].items[2].status = "completed"

\* C20: the billable items of a table have one line per menu item id that
\* occurs, accepted, processing or completed, in an active order of the table,
\* and the line's quantity is the sum of the quantities of those occurrences.
BillableOccurrences(adminUid, tableNumber, menuItemId) ==
    {x \in (DOMAIN orders) \X (1..3) :
        /\ orders[x[1]].adminUid = adminUid
        /\ orders[x[1]].tableNumber = tableNumber
        /\ orders[x[1]].orderStatus = "active"
        /\ x[2] \in DOMAIN orders[x[1]].items
        /\ orders[x[1]].items[x[2]].menuItemId = menuItemId
        /\ orders[x[1]].items[x[2]].status \in {"accepted", "processing", "completed"}}

RECURSIVE QuantityOf(_)
QuantityOf(occurrences) ==
    IF occurrences = {} THEN 0
    ELSE LET x == CHOOSE y \in occurrences : TRUE
         IN  orders[x[1]].items[x[2]].quantity + QuantityOf(occurrences \ {x})

C20_BillableItems ==
    \A a \in Tenants, n \in TableNumbers :
        LET lines == billableItems(a, n) IN
        /\ \A i, j \in DOMAIN lines :
              lines[i].menuItemId = lines[j].menuItemId => i = j
        /\ \A i \in DOMAIN lines :
              /\ BillableOccurrences(a, n, lines[i].menuItemId) # {}
              /\ lines[i].quantity = QuantityOf(BillableOccurrences(a, n, lines[i].menuItemId))
        /\ \A menuItemId \in {"A", "B"} :
              BillableOccurrences(a, n, menuItemId) # {} =>
                 \E i \in DOMAIN lines : lines[i].menuItemId = menuItemId

\* Two active orders of table 1 hold menu item A billable, one of them beside
\* a pending item, and the billable items are the one merged line.
C20_Witness ==
    /\ Len(orders) = 2
    /\ \A o \in DOMAIN orders : orders[o].tableNumber = 1 /\ orders[o].orderStatus = "active"
    /\ \E o \in DOMAIN orders :
          /\ Len(orders[o].items) = 2
          /\ orders[o].items[1].status = "completed"
          /\ orders[o].items[2].status = "pending"
    /\ Len(billableItems("t1", 1)) = 1
    /\ billableItems("t1", 1)[1].menuItemId = "A"
    /\ billableItems("t1", 1)[1].quantity = 4

\* C16: a generate that succeeds adds one bill with isFinal = false and leaves
\* the table of the bill in status billing with the session id and the code
\* it had; no other table changes.
C16_GenerateKeepsSessionAndCode ==
    [][\A a \in Tenants, body \in BillBodies, date \in Dates :
          (GenerateBill(a, body, date) /\ resp'.status = 200) =>
              /\ Len(bills') = Len(bills) + 1
              /\ bills'[Len(bills')].isFinal = FALSE
              /\ \A i \in DOMAIN bills : bills'[i] = bills[i]
              /\ \A t \in tables :
                    IF t.adminUid = body.adminUid /\ t.tableNumber = body.tableNumber
                    THEN [t EXCEPT !.status = "billing"] \in tables'
                    ELSE t \in tables'
              /\ Cardinality(tables') = Cardinality(tables)]_vars

\* A draft bill of session s1 for table 1, the table in billing and still
\* bound to a session, with an order of the table on the books.
C16_Witness ==
    /\ Len(bills) = 1 /\ ~bills[1].isFinal /\ bills[1].tableNumber = 1
    /\ Len(orders) >= 1 /\ Len(salesHistory) = 0
    /\ \E t \in tables :
          t.tableNumber = 1 /\ t.status = "billing" /\ t.activeSessionId \in NewSessions

\* C17: the sequence part of every bill number is 4 digits that read 1 + the
\* number of bills the tenant had before, whatever the dates; a tenant's
\* sequence numbers increase strictly.
BillsBefore(i) == {j \in DOMAIN bills : j < i /\ bills[j].adminUid = bills[i].adminUid}

FourDigits(n) == <<(n \div 1000) % 10, (n \div 100) % 10, (n \div 10) % 10, n % 10>>

SequenceNumber(seq) == 1000 * seq[1] + 100 * seq[2] + 10 * seq[3] + seq[4]

C17_BillSequence ==
    \A i \in DOMAIN bills :
        /\ bills[i].billNumber.seq = FourDigits(1 + Cardinality(BillsBefore(i)))
        /\ \A j \in BillsBefore(i) :
              SequenceNumber(bills[j].billNumber.seq) < SequenceNumber(bills[i].billNumber.seq)

\* A tenant's second bill, made on another day than its first, has sequence
\* 0002, beside another tenant's first bill.
C17_Witness ==
    /\ \E i, j \in DOMAIN bills :
          /\ i < j
          /\ bills[i].adminUid = bills[j].adminUid
          /\ bills[i].billNumber.date # bills[j].billNumber.date
          /\ bills[i].billNumber.seq = <<0, 0, 0, 1>>
          /\ bills[j].billNumber.seq = <<0, 0, 0, 2>>
    /\ \E i, j \in DOMAIN bills : bills[i].adminUid # bills[j].adminUid

\* C18: the code of every table is 4 decimal digits, and every string of 4
\* decimal digits, "0000" to "9999", is returned by generateOtp for some value
\* of Math.random().
C18_EveryCodeGenerated ==
    /\ \A t \in tables : Len(t.otp) = 4 /\ \A i \in 1..4 : t.otp[i] \in 0..9
    /\ \A n \in 0..9999 : \E k \in 0..(OtpRange - 1) : generateOtp(k) = FourDigits(n)

\* C19: the bill a generate stores has the payment mode of the request.
C19_PaymentModeStored ==
    [][\A body \in NumberedBillBodies, date \in BillingDates :
          (GenerateBill(body.adminUid, body, date) /\ resp'.status = 200) =>
              bills'[Len(bills')].paymentMode = body.paymentMode]_vars

\* C25: a vacant table has no active order for its tenant and table number.
C25_VacantTableHasNoActiveOrder ==
    \A t \in tables :
        t.status = "vacant" =>
            getActiveOrdersByTableNumber(orders, t.adminUid, t.tableNumber) = {}

\* C26: a join or a place-order request leaves an occupied table that stays
\* occupied bound to the session it was bound to.
C26_SessionKeptWhileOccupied ==
    [][((\E a \in Tenants, n \in TableNumbers, otp \in Otps : Join(a, n, otp))
          \/ (\E data \in OrderBodies : PlaceOrder(data))) =>
          \A t \in tables, u \in tables' :
              (/\ u.id = t.id
               /\ t.status # "vacant"
               /\ Truthy(t.activeSessionId)
               /\ u.status # "vacant") => u.activeSessionId = t.activeSessionId]_vars

\* C28: finalizing a bill whose session is not the one the bill's table is
\* bound to leaves that table as it is.
C28_FinalizeKeepsOtherSession ==
    [][\A a \in Tenants, id \in DOMAIN bills :
          (/\ getTableByNumber(bills[id].adminUid, bills[id].tableNumber) # {}
           /\ \A t \in getTableByNumber(bills[id].adminUid, bills[id].tableNumber) :
                 /\ t.status # "vacant"
                 /\ Truthy(t.activeSessionId)
                 /\ t.activeSessionId # bills[id].sessionId
           /\ FinalizeBill(a, id)) => tables' = tables]_vars

\* C30: whether a generate succeeds is decided by the bills of its own tenant:
\* it is refused only when one of them already has the number it mints.
C30_GenerateIndependentOfOtherTenants ==
    [][\A body \in NumberedBillBodies, date \in BillingDates :
          GenerateBill(body.adminUid, body, date) =>
              (resp'.status = 200 <=>
                  ~\E i \in getBillsByAdminUid(bills, body.adminUid) :
                      bills[i].billNumber = getNextBillNumber(bills, body.adminUid, date))]_vars

\* C21: an admin route called on a table, an order or a bill of another tenant
\* than the caller (update table, reset, cancel, regenerate code, set item
\* status, set order status, finalize), or a generate for another tenant,
\* answers 403 and changes no stored row.
RefusedUnchanged == resp'.status = 403 /\ dbVars' = dbVars

C21_NonOwnerRefused ==
    [][\A a \in AuthTenants :
          /\ \A t \in tables :
                (/\ t.adminUid # a
                 /\ \/ \E data \in AuthPatchBodies : UpdateTable(a, t.id, data)
                    \/ ResetTable(a, t.id)
                    \/ CancelTable(a, t.id)
                    \/ RegenerateOtp(a, t.id)) => RefusedUnchanged
          /\ \A id \in DOMAIN orders :
                (/\ orders[id].adminUid # a
                 /\ \/ SetItemStatus(a, id, 0, "accepted")
                    \/ \E s \in AuthOrderStatusInputs : SetOrderStatus(a, id, s)) =>
                    RefusedUnchanged
          /\ \A id \in DOMAIN bills :
                (bills[id].adminUid # a /\ FinalizeBill(a, id)) => RefusedUnchanged
          /\ \A body \in AuthBillBodies, date \in Dates :
                (body.adminUid # a /\ GenerateBill(a, body, date)) => RefusedUnchanged]_vars

\* A request was just refused while tenant t1 has an occupied table, an active
\* order with an accepted item and a draft bill.
C21_Witness ==
    /\ resp.status = 403
    /\ \E t \in tables : t.adminUid = "t1" /\ t.status # "vacant"
    /\ \E id \in DOMAIN orders :
          /\ orders[id].adminUid = "t1" /\ orders[id].orderStatus = "active"
          /\ orders[id].items[1].status = "accepted"
    /\ \E id \in DOMAIN bills : bills[id].adminUid = "t1" /\ ~bills[id].isFinal

\* C29: a finalize leaves the orders of every tenant other than the bill's as
\* they are.
C29_FinalizeKeepsOtherTenantsOrders ==
    [][\A a \in AuthTenants, id \in DOMAIN bills :
          FinalizeBill(a, id) =>
              \A o \in DOMAIN orders :
                  orders[o].adminUid # bills[id].adminUid => orders'[o] = orders[o]]_vars

\* C22: a set-item-status call writes back the whole items array it read, with
\* its own index changed: every other index gets the status it had when the
\* call read, whatever was written since.  So of two calls on different
\* indices that both read before either writes, the later write undoes the
\* earlier one.
C22_WholeArrayWrittenBack ==
    [][\A p \in Procs :
          WriteItems(p) =>
              /\ Len(orders'[procs[p].orderId].items) = Len(procs[p].items)
              /\ \A j \in DOMAIN procs[p].items :
                    orders'[procs[p].orderId].items[j].status =
                        IF j = procs[p].itemIndex + 1 THEN procs[p].status
                        ELSE procs[p].items[j].status]_vars

\* Two calls have answered 200, one having set item 0 to accepted and the
\* other item 1 to accepted, and item 0 is pending: its update is lost.
C22_Witness ==
    /\ \A p \in {1, 2} : procs[p].pc = "done" /\ procs[p].result = 200
                         /\ procs[p].status = "accepted" /\ procs[p].runs = 1
    /\ procs[1].itemIndex = 0
    /\ procs[2].itemIndex = 1
    /\ orders[1].items[1].status = "pending"
    /\ orders[1].items[2].status = "accepted"

\* C23: a generate mints its bill number from the count of the tenant's bills
\* at its read and inserts that number, whatever was inserted since.  So two
\* generates of a tenant that both read before either inserts mint the same
\* number.
C23_NumberMintedAtRead ==
    [][\A p \in Procs :
          /\ CountBills(p) =>
                procs'[p].billNumber.seq =
                    FourDigits(1 + Cardinality(getBillsByAdminUid(bills, procs[p].body.adminUid)))
          /\ (InsertBill(p) /\ bills' # bills) =>
                bills'[Len(bills')].billNumber = procs[p].billNumber]_vars

\* Two generates of tenant t1 in flight together have minted the same bill
\* number: one has stored its bill, the other is about to insert.
C23_Witness ==
    /\ procs[1].pc = "table"
    /\ procs[2].pc = "insert"
    /\ procs[1].body.adminUid = procs[2].body.adminUid
    /\ procs[1].billNumber = procs[2].billNumber
    /\ \E i \in DOMAIN bills : bills[i].billNumber = procs[2].billNumber

\* C24: finalize makes its four writes one after the other, each a step of
\* its own: the bill is final before the sales history row is written, the
\* row is written before the session's orders are completed, the orders are
\* completed before the table is reset.  An interruption changes no stored
\* row, so the writes made stay, and the interrupted request takes no further
\* step: the writes it had left are made by no one.
HasSalesRecord(id) == \E i \in DOMAIN salesHistory : salesHistory[i].billId = id

C24_FinalizeStepwise ==
    [][\A p \in Procs :
          /\ MarkFinal(p) =>
                /\ bills'[procs[p].id].isFinal
                /\ <<salesHistory', orders', tables'>> = <<salesHistory, orders, tables>>
          /\ WriteSalesHistory(p) =>
                /\ bills[procs[p].id].isFinal
                /\ Len(salesHistory') = Len(salesHistory) + 1
                /\ <<bills', orders', tables'>> = <<bills, orders, tables>>
          /\ CompleteOrders(p) =>
                /\ bills[procs[p].id].isFinal /\ HasSalesRecord(procs[p].id)
                /\ <<bills', salesHistory', tables'>> = <<bills, salesHistory, tables>>
          /\ ResetBilledTable(p) =>
                /\ bills[procs[p].id].isFinal /\ HasSalesRecord(procs[p].id)
                /\ \A o \in getOrdersBySessionId(orders, procs[p].bill.sessionId) :
                      orders[o].orderStatus = "completed"
                /\ <<bills', salesHistory', orders'>> = <<bills, salesHistory, orders>>
          /\ Interrupt(p) => dbVars' = dbVars
          /\ procs[p].pc = "interrupted" => procs'[p] = procs[p]]_vars

\* The one finalize that was made was interrupted after its first write: the
\* bill is final, no sales history row exists, the order is active and the
\* table is in billing with its session; no request is in flight.
C24_Witness ==
    /\ procs[1].pc = "interrupted"
    /\ \A p \in Procs : p # 1 => procs[p].pc = "idle"
    /\ bills[1].isFinal
    /\ salesHistory = <<>>
    /\ orders[1].orderStatus = "active"
    /\ \E t \in tables : t.status = "billing" /\ t.activeSessionId = "s1"

\* C27: validate does not report valid a session id whose bill for the table
\* was finalized: the finalize made the table vacant, and the session that
\* was bound to it before stays ended whatever its holder sends afterwards.
C27_EndedSessionNeverValid ==
    [][\A s \in NewSessions :
          (/\ \E i \in DOMAIN bills :
                 /\ bills[i].isFinal
                 /\ bills[i].adminUid = "t1"
                 /\ bills[i].tableNumber = 1
                 /\ bills[i].sessionId = s
           /\ Validate("t1", 1, s)) => ~resp'.valid]_vars
=============================================================================
